---- MODULE Spec2Model ----
(***************************************************************************)
(* Model of the fgcmcal tract calibration driver.                          *)
(*                                                                         *)
(*   FgcmCalibrateTractRunner.run        fgcmCalibrateTract.py 149-164     *)
(*   FgcmCalibrateTractRunner.__call__   fgcmCalibrateTract.py 114-147     *)
(*   FgcmCalibrateTractTask.runDataRef   fgcmCalibrateTract.py 202-438     *)
(*                                                                         *)
(* and, each under a specification of its own, of                          *)
(*                                                                         *)
(*   the star observation indexing       fgcmCalibrateTract.py 284-313     *)
(*   the zeropoint catalog and its flags fgcmCalibrateTract.py 421-422     *)
(*   getFgcmReferenceStarsSkyCircle      fgcmLoadReferenceCatalog.py 172-  *)
(*   FgcmMakeLutTask.run                 fgcmMakeLut.py 226-415            *)
(*                                                                         *)
(* Magnitudes (repeatabilities, tolerances) are integers in units of       *)
(* 1e-4 mag, so 0.0200 mag is 200, the default tolerance 0.005 is 50 and   *)
(* the start value 1000.0 of previousReservedRawRepeatability is 10^7.     *)
(*                                                                         *)
(* The external fgcm engine is an environment: each call of                *)
(* FgcmFitCycle.run() either raises or returns with a repeatability vector *)
(* and recommended cuts chosen by the environment.                         *)
(***************************************************************************)
EXTENDS Integers, Sequences, FiniteSets, TLC

VARIABLES
    \* ---- configuration and repository inputs (fixed during a run)
    lutExists,              \* butler.datasetExists('fgcmLookUpTable')
    doReferenceMatches,     \* config.fgcmBuildStars.doReferenceMatches
    maxFitCycles,           \* config.maxFitCycles
    convergenceTolerance,   \* config.convergenceTolerance
    doRaise,                \* runner.doRaise
    doReturnResults,        \* runner.doReturnResults
    \* ---- FgcmCalibrateTractRunner.__call__
    rpc,                    \* position of __call__
    exitStatus,             \* local exitStatus
    resultsBound,           \* whether the local name `results` is assigned
    failLogged,             \* number of task.log.fatal("Failed: ...") calls
    metadataWrites,         \* number of task.writeMetadata(butler) calls
    returned,               \* the list __call__ returned (<< >> before/without return)
    runpc,                  \* where FgcmCalibrateTractRunner.run is
    precallOk,              \* what self.precall(parsedCmd) returns
    taskCalls,              \* number of times run has invoked self(target)
    resultList,             \* run's local resultList, which it returns
    \* ---- FgcmCalibrateTractTask.runDataRef
    pc,                     \* position of runDataRef
    starsBuilt,             \* fgcmBuildStars steps (lines 238-244) were run
    engineSetUp,            \* fgcm.FgcmFitCycle constructed, LUT and stars set
    converged,
    cycleNumber,
    previousReservedRawRepeatability,
    previousParInfo,
    previousParams,
    previousSuperStar,
    warnedNotConverged,     \* the warning of line 384 was logged
    \* ---- state of the engine objects the task writes to
    fgcmConfig,             \* fgcmFitCycle.fgcmConfig fields the task sets
    initialCycle,           \* fgcmFitCycle.initialCycle
    fgcmPars,               \* which parameters are currently set in the engine
    magsReloaded,           \* number of reloadStarMagnitudes calls
    compReservedRawRepeatability,   \* fgcmFitCycle.fgcmPars.compReservedRawRepeatability
    updatedCuts,            \* fgcmFitCycle.updatedPhotometricCut / updatedHighCut:
                            \* << >> before any fit, <<n>> as recommended by cycle n
    \* ---- observation of the run
    fitLog,                 \* one entry per FgcmFitCycle.run() invocation
    testLog,                \* outcome of the convergence test of each loop cycle
    fitFailed,              \* an invocation of run() raised
    nOutputCalls,           \* number of generateOutputProducts calls
    \* ---- star observation indexing (lines 284-300)
    ipc,                    \* position of the indexing code
    VISIT,                  \* fgcmExpInfo['VISIT']
    obsVisit,               \* fgcmStarObservationCat['visit']
    obsIndex,               \* fgcmStarIndicesCat['obsIndex']
    visitIndex,             \* result of np.searchsorted
    loadedVisit,            \* visit column handed to loadStars
    loadedFilterVisit,      \* visit whose FILTERNAME is handed to loadStars, per row
    \* ---- zeropoint output (lines 421-422)
    zpc,                    \* position of the zeropoint catalog assembly
    zpStruct,               \* fgcmFitCycle.fgcmZpts.zpStruct
    zptCat,                 \* the catalog made by makeZptCat
    \* ---- FgcmLoadReferenceCatalogTask (fgcmLoadReferenceCatalog.py)
    refpc,                  \* outcome of the last getFgcmReferenceStarsSkyCircle call
    refCalls,               \* number of calls so far
    applyColorTerms,        \* config.applyColorTerms
    refFilterMap,           \* config.refFilterMap
    colorterms,             \* camera filters config.colorterms has a color term for
    schemaFilters,          \* reference filters the catalog has a flux field for
    refCat,                 \* the rows loadSkyCircle returns, with the selector's flag
    filterList,             \* argument of the last call
    fluxFilters,            \* self._fluxFilters
    fluxFields,             \* self._fluxFields
    referenceFilter,        \* self._referenceFilter
    fgcmRefCat,             \* the catalog the last call returned
    \* ---- FgcmMakeLutTask (fgcmMakeLut.py)
    lpc,                    \* outcome of the last FgcmMakeLutTask.run
    lutRuns,                \* number of runs so far
    fgcmLutExists,          \* butler.datasetExists('fgcmLut')
    lookUpTable,            \* the dataset 'fgcmLookUpTable': None or the catalog put
    lookUpTableAtStart,     \* the dataset when the last run started
    lutPuts,                \* number of butler.put calls of the last run
    lutMakerBuilt,          \* fgcm.FgcmLUTMaker(lutConfig) was constructed in the last run
    lutMade,                \* fgcmLutMaker.makeLUT() returned in the last run
    lutError,               \* the exception that ended the last run, "none" without
    axisRange,              \* config.<axis>Range
    axisSteps,              \* config.<axis>Steps
    lambdaRange,            \* config.lambdaRange, in Angstrom
    lambdaStep,             \* config.lambdaStep, in nm
    throughputDict          \* what the last run handed to setThroughputs, or None

runVars == <<runpc, taskCalls, resultList>>
runnerVars == <<rpc, exitStatus, resultsBound, failLogged, metadataWrites, returned, runVars>>
inputVars == <<lutExists, doReferenceMatches, maxFitCycles, convergenceTolerance,
               doRaise, doReturnResults, precallOk>>
taskVars == <<pc, starsBuilt, engineSetUp, converged, cycleNumber,
              previousReservedRawRepeatability, previousParInfo, previousParams,
              previousSuperStar, warnedNotConverged>>
engineVars == <<fgcmConfig, initialCycle, fgcmPars, magsReloaded,
                compReservedRawRepeatability, updatedCuts>>
logVars == <<fitLog, testLog, fitFailed, nOutputCalls>>
indexVars == <<ipc, VISIT, obsVisit, obsIndex, visitIndex, loadedVisit, loadedFilterVisit>>
zptVars == <<zpc, zpStruct, zptCat>>
refConfigVars == <<applyColorTerms, refFilterMap, colorterms, schemaFilters, refCat>>
refVars == <<refpc, refCalls, filterList, fluxFilters, fluxFields, referenceFilter,
             fgcmRefCat, refConfigVars>>
lutConfigVars == <<fgcmLutExists, axisRange, axisSteps, lambdaRange, lambdaStep>>
lutVars == <<lpc, lutRuns, lookUpTable, lookUpTableAtStart, lutPuts, lutMakerBuilt,
             lutMade, lutError, throughputDict, lutConfigVars>>
toolVars == <<refVars, lutVars>>
auxVars == <<zptVars, toolVars>>
vars == <<inputVars, runnerVars, taskVars, engineVars, logVars, indexVars, auxVars>>

----------------------------------------------------------------------------
(* Bounds and program constants *)

\* largest maxFitCycles explored (config default is 5)
MaxFitCyclesBound == 5

\* longest observation table explored by the indexing specification
MaxObs == 3

\* np.zeros(nBands) + 1000.0, in units of 1e-4 mag
SentinelRepeatability == 10000000

\* convergenceTolerance default 0.005, in units of 1e-4 mag
DefaultConvergenceTolerance == 50

\* config.fgcmFitCycle.maxIterBeforeFinalCycle handed to makeConfigDict
MaxIterBeforeFinalCycle == 50

Bands == {1, 2}

\* convergenceTolerance is an unvalidated float field: the default and a value
\* as large as the start value of previousReservedRawRepeatability
Tolerances == {DefaultConvergenceTolerance, SentinelRepeatability}

\* repeatability vectors the engine may report after a fit (units of 1e-4 mag)
RepVectors ==
    { <<200, 180>>, <<158, 145>>, <<150, 180>>, <<200, 130>>, <<205, 182>> }

None == << >>

Min(a, b) == IF a <= b THEN a ELSE b

----------------------------------------------------------------------------
(* Pure parts of runDataRef *)

\* the variant of the convergence test that compares the size of the change
RepeatabilityConvergedAbs(prev, cur, tol) ==
    \A b \in Bands :
        (IF prev[b] - cur[b] < 0 THEN cur[b] - prev[b] ELSE prev[b] - cur[b]) < tol

\* np.alltrue((previousReservedRawRepeatability - compReservedRawRepeatability)
\*            < convergenceTolerance)
RepeatabilityConverged(prev, cur, tol) ==
    \A b \in Bands : prev[b] - cur[b] < tol

\* a loop guard that forgets the converged flag
LoopGuardNoConverged(conv, cyc, maxCyc) == cyc < maxCyc

\* while (not converged and cycleNumber < self.config.maxFitCycles)
LoopGuard(conv, cyc, maxCyc) == ~conv /\ cyc < maxCyc

\* fgcmConfig as left by makeConfigDict(config, log, camera,
\*     maxIterBeforeFinalCycle, True, False, tract) and configDict['doPlots'] = False
\* (resetFitParameters = True, outputZeropoints = False; outputStandards is not
\* requested before the final cycle). freeze and precompute are configuration.
makeConfigDict(freeze, precompute) ==
    [ cycleNumber |-> 0,
      maxIter |-> MaxIterBeforeFinalCycle,
      resetParameters |-> TRUE,
      outputZeropoints |-> FALSE,
      outputStandards |-> FALSE,
      freezeStdAtmosphere |-> freeze,
      precomputeSuperStarInitialCycle |-> precompute,
      expGrayPhotometricCut |-> << >>,
      expGrayHighCut |-> << >> ]

\* a clean-up configuration that leaves the optimizer iterations as they were
FinalCycleConfigKeepMaxIter(cfg, cyc) ==
    [cfg EXCEPT !.freezeStdAtmosphere = FALSE,
                !.resetParameters = FALSE,
                !.outputZeropoints = TRUE,
                !.outputStandards = TRUE,
                !.cycleNumber = cyc]

\* lines 387-393: the configuration of the final clean-up iteration
FinalCycleConfig(cfg, cyc) ==
    [cfg EXCEPT !.freezeStdAtmosphere = FALSE,
                !.resetParameters = FALSE,
                !.maxIter = 0,
                !.outputZeropoints = TRUE,
                !.outputStandards = TRUE,
                !.cycleNumber = cyc]

\* what the engine sees when run() is invoked
FitEntry(kind, cfg, pars) ==
    [ kind |-> kind,
      cycleNumber |-> cfg.cycleNumber,
      maxIter |-> cfg.maxIter,
      resetParameters |-> cfg.resetParameters,
      freezeStdAtmosphere |-> cfg.freezeStdAtmosphere,
      precomputeSuperStarInitialCycle |-> cfg.precomputeSuperStarInitialCycle,
      outputZeropoints |-> cfg.outputZeropoints,
      outputStandards |-> cfg.outputStandards,
      pars |-> pars ]

----------------------------------------------------------------------------
(* State after construction: the runner is about to be called *)

ZptIdle ==
    /\ zpc = "idle"
    /\ zpStruct = << >>
    /\ zptCat = << >>

RefIdle ==
    /\ refpc = "idle"
    /\ refCalls = 0
    /\ applyColorTerms = TRUE
    /\ refFilterMap = << >>
    /\ colorterms = {}
    /\ schemaFilters = {}
    /\ refCat = << >>
    /\ filterList = << >>
    /\ fluxFilters = None
    /\ fluxFields = None
    /\ referenceFilter = None
    /\ fgcmRefCat = << >>

Axes == {"pmb", "pwv", "o3", "tau", "alpha", "zenith"}

\* a well-formed axis: three samples from 0 to 2
DefaultAxisRange == <<0, 2>>
DefaultAxisSteps == 3

\* the wavelength grid configured while the maker is not run: three steps of 1 nm
IdleLambdaRange == <<3000, 3030>>
IdleLambdaStep == 1

LutIdle ==
    /\ lpc = "idle"
    /\ lutRuns = 0
    /\ fgcmLutExists = FALSE
    /\ lookUpTable = None
    /\ lookUpTableAtStart = None
    /\ lutPuts = 0
    /\ lutMakerBuilt = FALSE
    /\ lutMade = FALSE
    /\ lutError = "none"
    /\ axisRange = [a \in Axes |-> DefaultAxisRange]
    /\ axisSteps = [a \in Axes |-> DefaultAxisSteps]
    /\ lambdaRange = IdleLambdaRange
    /\ lambdaStep = IdleLambdaStep
    /\ throughputDict = None

ToolsIdle == RefIdle /\ LutIdle

IndexIdle ==
    /\ ipc = "idle"
    /\ VISIT = << >>
    /\ obsVisit = << >>
    /\ obsIndex = << >>
    /\ visitIndex = << >>
    /\ loadedVisit = << >>
    /\ loadedFilterVisit = << >>

RunIdle ==
    /\ runpc = "entered"
    /\ taskCalls = 0
    /\ resultList = << >>
    /\ rpc = "start"
    /\ exitStatus = 0
    /\ resultsBound = FALSE
    /\ failLogged = 0
    /\ metadataWrites = 0
    /\ returned = << >>
    /\ pc = "idle"
    /\ starsBuilt = FALSE
    /\ engineSetUp = FALSE
    /\ converged = FALSE
    /\ cycleNumber = 0
    /\ previousReservedRawRepeatability = [b \in Bands |-> 0]
    /\ previousParInfo = None
    /\ previousParams = None
    /\ previousSuperStar = None
    /\ warnedNotConverged = FALSE
    /\ fgcmConfig = makeConfigDict(FALSE, FALSE)
    /\ initialCycle = TRUE
    /\ fgcmPars = [kind |-> "unset", parInfo |-> None, params |-> None, superStar |-> None]
    /\ magsReloaded = 0
    /\ compReservedRawRepeatability = [b \in Bands |-> 0]
    /\ updatedCuts = << >>
    /\ fitLog = << >>
    /\ testLog = << >>
    /\ fitFailed = FALSE
    /\ nOutputCalls = 0

Init ==
    /\ lutExists \in BOOLEAN
    /\ doReferenceMatches \in BOOLEAN
    /\ maxFitCycles \in 0..MaxFitCyclesBound
    /\ convergenceTolerance \in Tolerances
    /\ doRaise \in BOOLEAN
    /\ doReturnResults \in BOOLEAN
    /\ precallOk \in BOOLEAN
    /\ RunIdle
    /\ IndexIdle
    /\ ZptIdle
    /\ ToolsIdle

----------------------------------------------------------------------------
(* FgcmCalibrateTractRunner.run and __call__ *)

\* a run that goes on to the target whatever precall returns
RunnerRunIgnoresPrecall ==
    /\ runpc = "entered"
    /\ runpc' = "inCall"
    /\ UNCHANGED <<taskCalls, resultList>>
    /\ UNCHANGED <<rpc, exitStatus, resultsBound, failLogged, metadataWrites, returned>>
    /\ UNCHANGED <<auxVars, inputVars, taskVars, engineVars, logVars, indexVars>>

\* lines 158-164: resultList = []; if precall fails run returns it, else it
\* takes the first target and calls self on it
RunnerRun ==
    /\ runpc = "entered"
    /\ IF precallOk
       THEN /\ runpc' = "inCall"
            /\ UNCHANGED resultList
       ELSE /\ runpc' = "returned"
            /\ resultList' = << >>
    /\ UNCHANGED taskCalls
    /\ UNCHANGED <<rpc, exitStatus, resultsBound, failLogged, metadataWrites, returned>>
    /\ UNCHANGED <<auxVars, inputVars, taskVars, engineVars, logVars, indexVars>>

\* lines 162-164: self(targetList[0]) has returned and run returns its value,
\* or it has raised and the exception leaves run
RunnerRunReturn ==
    /\ runpc = "inCall"
    /\ rpc \in {"returned", "raised"}
    /\ IF rpc = "returned"
       THEN /\ runpc' = "returned"
            /\ resultList' = returned
       ELSE /\ runpc' = "raised"
            /\ UNCHANGED resultList
    /\ UNCHANGED taskCalls
    /\ UNCHANGED <<rpc, exitStatus, resultsBound, failLogged, metadataWrites, returned>>
    /\ UNCHANGED <<auxVars, inputVars, taskVars, engineVars, logVars, indexVars>>

\* lines 125-134: create the task, exitStatus = 0, call task.runDataRef
RunnerCall ==
    /\ runpc = "inCall"
    /\ rpc = "start"
    /\ rpc' = "inTask"
    /\ taskCalls' = taskCalls + 1
    /\ exitStatus' = 0
    /\ pc' = "start"
    /\ UNCHANGED <<runpc, resultList>>
    /\ UNCHANGED <<resultsBound, failLogged, metadataWrites, returned>>
    /\ UNCHANGED <<auxVars, inputVars, engineVars, logVars, indexVars>>
    /\ UNCHANGED <<starsBuilt, engineSetUp, converged, cycleNumber,
                   previousReservedRawRepeatability, previousParInfo, previousParams,
                   previousSuperStar, warnedNotConverged>>

\* lines 131, 134: runDataRef returned; results is assigned; then lines 141-147
RunnerAfterReturn ==
    /\ rpc = "inTask"
    /\ pc = "done"
    /\ resultsBound' = TRUE
    /\ metadataWrites' = metadataWrites + 1
    /\ returned' = IF doReturnResults
                   THEN << [exitStatus |-> exitStatus, results |-> "outStruct"] >>
                   ELSE << [exitStatus |-> exitStatus] >>
    /\ rpc' = "returned"
    /\ UNCHANGED runVars
    /\ UNCHANGED <<exitStatus, failLogged>>
    /\ UNCHANGED <<auxVars, inputVars, taskVars, engineVars, logVars, indexVars>>

\* line 131 with doRaise: the exception of runDataRef leaves __call__
RunnerReraise ==
    /\ rpc = "inTask"
    /\ pc = "raised"
    /\ doRaise
    /\ rpc' = "raised"
    /\ UNCHANGED runVars
    /\ UNCHANGED <<exitStatus, resultsBound, failLogged, metadataWrites, returned>>
    /\ UNCHANGED <<auxVars, inputVars, taskVars, engineVars, logVars, indexVars>>

\* lines 135-147 without doRaise: the exception is caught and logged,
\* writeMetadata is called, and the return value is built. results was never
\* assigned, so building Struct(exitStatus=..., results=results) raises
\* UnboundLocalError.
RunnerCatch ==
    /\ rpc = "inTask"
    /\ pc = "raised"
    /\ ~doRaise
    /\ exitStatus' = 1
    /\ failLogged' = failLogged + 1
    /\ metadataWrites' = metadataWrites + 1
    /\ IF doReturnResults
       THEN IF resultsBound
            THEN /\ returned' = << [exitStatus |-> 1, results |-> "outStruct"] >>
                 /\ rpc' = "returned"
            ELSE /\ returned' = returned
                 /\ rpc' = "raised"
       ELSE /\ returned' = << [exitStatus |-> 1] >>
            /\ rpc' = "returned"
    /\ UNCHANGED <<resultsBound, runVars>>
    /\ UNCHANGED <<auxVars, inputVars, taskVars, engineVars, logVars, indexVars>>

----------------------------------------------------------------------------
(* Star observation indexing, lines 284-313.  Rows and positions are        *)
(* numbered from 1; np.searchsorted's result i is the position i + 1.       *)

RECURSIVE Bisect(_, _, _, _)
\* binary search for the leftmost insertion point of v in the sorted a,
\* between lo and hi (numbers of elements before the point)
Bisect(a, v, lo, hi) ==
    IF lo >= hi THEN lo
    ELSE LET mid == (lo + hi) \div 2
         IN  IF a[mid + 1] < v THEN Bisect(a, v, mid + 1, hi)
                               ELSE Bisect(a, v, lo, mid)

\* np.searchsorted(a, v) (side='left'), as a position from 1 to Len(a) + 1
searchsorted(a, v) == Bisect(a, v, 0, Len(a)) + 1

\* visitIndex = np.searchsorted(fgcmExpInfo['VISIT'],
\*                              fgcmStarObservationCat['visit'][obsIndex])
VisitIndexOf(V, ov, oi) ==
    [k \in 1..Len(oi) |-> searchsorted(V, ov[oi[k]])]

\* fgcmExpInfo['FILTERNAME'][visitIndex] raises IndexError when a position is
\* past the end of the visit table
FilterLookupOk(V, vi) == \A k \in 1..Len(vi) : vi[k] <= Len(V)

----------------------------------------------------------------------------
(* FgcmCalibrateTractTask.runDataRef *)

\* a precondition check that forgets doReferenceMatches
CheckPreconditionsLutOnly ==
    /\ rpc = "inTask"
    /\ pc = "start"
    /\ pc' = IF ~lutExists THEN "raised" ELSE "build"
    /\ UNCHANGED <<starsBuilt, engineSetUp, converged, cycleNumber,
                   previousReservedRawRepeatability, previousParInfo, previousParams,
                   previousSuperStar, warnedNotConverged>>
    /\ UNCHANGED <<auxVars, inputVars, runnerVars, engineVars, logVars, indexVars>>

\* lines 224-228: both checks raise RuntimeError
CheckPreconditions ==
    /\ rpc = "inTask"
    /\ pc = "start"
    /\ pc' = IF ~lutExists THEN "raised"
             ELSE IF ~doReferenceMatches THEN "raised"
             ELSE "build"
    /\ UNCHANGED <<starsBuilt, engineSetUp, converged, cycleNumber,
                   previousReservedRawRepeatability, previousParInfo, previousParams,
                   previousSuperStar, warnedNotConverged>>
    /\ UNCHANGED <<auxVars, inputVars, runnerVars, engineVars, logVars, indexVars>>

\* visit tables, observation tables and star indices a tract run is given by
\* fgcmBuildStars (lines 238-244)
TractTables ==
    { [VISIT |-> <<10, 20, 30>>, obsVisit |-> <<30, 20, 10>>, obsIndex |-> <<1, 2, 3>>],
      [VISIT |-> <<10, 20, 30>>, obsVisit |-> <<30, 5, 20, 10, 99>>,
       obsIndex |-> <<1, 2, 3, 4, 5>>] }

\* lines 288-313: take obsIndex from the star indices, compute visitIndex, and
\* build the arguments of loadStars (the visit column and the filter names
\* looked up through visitIndex)
IndexAndLoadStars(V, ov, oi) ==
    LET vi == VisitIndexOf(V, ov, oi)
    IN  /\ VISIT' = V
        /\ obsVisit' = ov
        /\ obsIndex' = oi
        /\ visitIndex' = vi
        /\ IF FilterLookupOk(V, vi)
           THEN /\ ipc' = "loaded"
                /\ loadedVisit' = [k \in 1..Len(oi) |-> ov[oi[k]]]
                /\ loadedFilterVisit' = [k \in 1..Len(vi) |-> V[vi[k]]]
           ELSE /\ ipc' = "indexError"
                /\ loadedVisit' = << >>
                /\ loadedFilterVisit' = << >>

\* lines 230-330: build the stars, load the LUT, make the configuration, set up
\* the engine, index and load the stars, initialise the loop state
BuildAndSetup ==
    /\ rpc = "inTask"
    /\ pc = "build"
    /\ starsBuilt' = TRUE
    /\ \E t \in TractTables : IndexAndLoadStars(t.VISIT, t.obsVisit, t.obsIndex)
    /\ pc' = IF ipc' = "loaded" THEN "loopTop" ELSE "raised"
    /\ engineSetUp' = (ipc' = "loaded")
    /\ \E freeze \in BOOLEAN, precompute \in BOOLEAN :
           fgcmConfig' = makeConfigDict(freeze, precompute)
    /\ fgcmPars' = [kind |-> "new", parInfo |-> None, params |-> None, superStar |-> None]
    /\ converged' = FALSE
    /\ cycleNumber' = 0
    /\ previousReservedRawRepeatability' = [b \in Bands |-> SentinelRepeatability]
    /\ previousParInfo' = None
    /\ previousParams' = None
    /\ previousSuperStar' = None
    /\ UNCHANGED <<warnedNotConverged, initialCycle, magsReloaded,
                   compReservedRawRepeatability, updatedCuts>>
    /\ UNCHANGED <<auxVars, inputVars, runnerVars, logVars>>

\* line 332 and lines 383-384: evaluate the loop condition; on exit warn if the
\* loop did not converge
LoopTest ==
    /\ rpc = "inTask"
    /\ pc = "loopTop"
    /\ IF LoopGuard(converged, cycleNumber, maxFitCycles)
       THEN /\ pc' = "loopFit"
            /\ UNCHANGED warnedNotConverged
       ELSE /\ pc' = "cleanup"
            /\ warnedNotConverged' = ~converged
    /\ UNCHANGED <<starsBuilt, engineSetUp, converged, cycleNumber,
                   previousReservedRawRepeatability, previousParInfo, previousParams,
                   previousSuperStar>>
    /\ UNCHANGED <<auxVars, inputVars, runnerVars, engineVars, logVars, indexVars>>

\* fgcm.FgcmParameters.loadParsWithArrays(fgcmConfig, fgcmExpInfo, previousParInfo,
\*                                        previousParams, previousSuperStar)
LoadedPars == [kind |-> "loaded", parInfo |-> previousParInfo,
               params |-> previousParams, superStar |-> previousSuperStar]

\* lines 334-350: what is set in the engine before run() in a loop cycle
LoopCycleConfig == [fgcmConfig EXCEPT !.cycleNumber = cycleNumber]
LoopCyclePars == IF cycleNumber > 0 THEN LoadedPars ELSE fgcmPars

\* a loop cycle that never resets the star magnitudes
LoopCyclePrepareNoReload ==
    /\ fgcmConfig' = LoopCycleConfig
    /\ fgcmPars' = LoopCyclePars
    /\ magsReloaded' = magsReloaded
    /\ initialCycle' = IF cycleNumber > 0 THEN FALSE ELSE initialCycle
    /\ fitLog' = Append(fitLog, FitEntry("loop", LoopCycleConfig, LoopCyclePars))

LoopCyclePrepare ==
    /\ fgcmConfig' = LoopCycleConfig
    /\ fgcmPars' = LoopCyclePars
    /\ magsReloaded' = IF cycleNumber > 0 THEN magsReloaded + 1 ELSE magsReloaded
    /\ initialCycle' = IF cycleNumber > 0 THEN FALSE ELSE initialCycle
    /\ fitLog' = Append(fitLog, FitEntry("loop", LoopCycleConfig, LoopCyclePars))

\* a cycle that captures the parameter arrays but not the super-star flat
LoopFitReturnKeepsSuperStar ==
    /\ rpc = "inTask"
    /\ pc = "loopFit"
    /\ LoopCyclePrepare
    /\ \E rep \in RepVectors : compReservedRawRepeatability' = rep
    /\ updatedCuts' = <<cycleNumber>>
    /\ previousParInfo' = <<cycleNumber>>
    /\ previousParams' = <<cycleNumber>>
    /\ pc' = "loopCheck"
    /\ UNCHANGED <<starsBuilt, engineSetUp, converged, cycleNumber,
                   previousReservedRawRepeatability, previousSuperStar,
                   warnedNotConverged>>
    /\ UNCHANGED <<testLog, fitFailed, nOutputCalls>>
    /\ UNCHANGED <<auxVars, inputVars, runnerVars, indexVars>>

\* lines 334-356, run() returns: the engine reports a repeatability vector and
\* recommended cuts; the task captures the fitted parameters
LoopFitReturn ==
    /\ rpc = "inTask"
    /\ pc = "loopFit"
    /\ LoopCyclePrepare
    /\ \E rep \in RepVectors : compReservedRawRepeatability' = rep
    /\ updatedCuts' = <<cycleNumber>>
    /\ previousParInfo' = <<cycleNumber>>
    /\ previousParams' = <<cycleNumber>>
    /\ previousSuperStar' = <<cycleNumber>>
    /\ pc' = "loopCheck"
    /\ UNCHANGED <<starsBuilt, engineSetUp, converged, cycleNumber,
                   previousReservedRawRepeatability, warnedNotConverged>>
    /\ UNCHANGED <<testLog, fitFailed, nOutputCalls>>
    /\ UNCHANGED <<auxVars, inputVars, runnerVars, indexVars>>

\* a failure of run() that is swallowed: the cycle goes on with stale results
LoopFitRaiseSwallowed ==
    /\ rpc = "inTask"
    /\ pc = "loopFit"
    /\ LoopCyclePrepare
    /\ fitFailed' = TRUE
    /\ pc' = "loopCheck"
    /\ UNCHANGED <<starsBuilt, engineSetUp, converged, cycleNumber,
                   previousReservedRawRepeatability, previousParInfo, previousParams,
                   previousSuperStar, warnedNotConverged>>
    /\ UNCHANGED <<compReservedRawRepeatability, updatedCuts>>
    /\ UNCHANGED <<testLog, nOutputCalls>>
    /\ UNCHANGED <<auxVars, inputVars, runnerVars, indexVars>>

\* lines 334-352, run() raises: nothing catches it inside runDataRef
LoopFitRaise ==
    /\ rpc = "inTask"
    /\ pc = "loopFit"
    /\ LoopCyclePrepare
    /\ fitFailed' = TRUE
    /\ pc' = "raised"
    /\ UNCHANGED <<starsBuilt, engineSetUp, converged, cycleNumber,
                   previousReservedRawRepeatability, previousParInfo, previousParams,
                   previousSuperStar, warnedNotConverged>>
    /\ UNCHANGED <<compReservedRawRepeatability, updatedCuts>>
    /\ UNCHANGED <<testLog, nOutputCalls>>
    /\ UNCHANGED <<auxVars, inputVars, runnerVars, indexVars>>

\* a check that takes over the repeatability whether or not the cycle converged
LoopCheckAlwaysTakesRepeatability ==
    /\ rpc = "inTask"
    /\ pc = "loopCheck"
    /\ LET conv == RepeatabilityConverged(previousReservedRawRepeatability,
                                          compReservedRawRepeatability,
                                          convergenceTolerance)
       IN  /\ testLog' = Append(testLog, conv)
           /\ previousReservedRawRepeatability' = compReservedRawRepeatability
           /\ IF conv
              THEN /\ converged' = TRUE
                   /\ UNCHANGED fgcmConfig
              ELSE /\ fgcmConfig' = [fgcmConfig EXCEPT
                                        !.expGrayPhotometricCut = updatedCuts,
                                        !.expGrayHighCut = updatedCuts,
                                        !.precomputeSuperStarInitialCycle = FALSE,
                                        !.freezeStdAtmosphere = FALSE]
                   /\ UNCHANGED converged
    /\ cycleNumber' = cycleNumber + 1
    /\ pc' = "loopTop"
    /\ UNCHANGED <<starsBuilt, engineSetUp, previousParInfo, previousParams,
                   previousSuperStar, warnedNotConverged>>
    /\ UNCHANGED <<initialCycle, fgcmPars, magsReloaded, compReservedRawRepeatability,
                   updatedCuts>>
    /\ UNCHANGED <<fitLog, fitFailed, nOutputCalls>>
    /\ UNCHANGED <<auxVars, inputVars, runnerVars, indexVars>>

\* a check that leaves the flags of the initial cycle as they are
LoopCheckKeepsInitialFlags ==
    /\ rpc = "inTask"
    /\ pc = "loopCheck"
    /\ LET conv == RepeatabilityConverged(previousReservedRawRepeatability,
                                          compReservedRawRepeatability,
                                          convergenceTolerance)
       IN  /\ testLog' = Append(testLog, conv)
           /\ IF conv
              THEN /\ converged' = TRUE
                   /\ UNCHANGED <<fgcmConfig, previousReservedRawRepeatability>>
              ELSE /\ fgcmConfig' = [fgcmConfig EXCEPT
                                        !.expGrayPhotometricCut = updatedCuts,
                                        !.expGrayHighCut = updatedCuts]
                   /\ previousReservedRawRepeatability' = compReservedRawRepeatability
                   /\ UNCHANGED converged
    /\ cycleNumber' = cycleNumber + 1
    /\ pc' = "loopTop"
    /\ UNCHANGED <<starsBuilt, engineSetUp, previousParInfo, previousParams,
                   previousSuperStar, warnedNotConverged>>
    /\ UNCHANGED <<initialCycle, fgcmPars, magsReloaded, compReservedRawRepeatability,
                   updatedCuts>>
    /\ UNCHANGED <<fitLog, fitFailed, nOutputCalls>>
    /\ UNCHANGED <<auxVars, inputVars, runnerVars, indexVars>>

\* lines 363-380: the convergence test, the update for the next cycle, and the
\* increment of cycleNumber
LoopCheck ==
    /\ rpc = "inTask"
    /\ pc = "loopCheck"
    /\ LET conv == RepeatabilityConverged(previousReservedRawRepeatability,
                                          compReservedRawRepeatability,
                                          convergenceTolerance)
       IN  /\ testLog' = Append(testLog, conv)
           /\ IF conv
              THEN /\ converged' = TRUE
                   /\ UNCHANGED <<fgcmConfig, previousReservedRawRepeatability>>
              ELSE /\ fgcmConfig' = [fgcmConfig EXCEPT
                                        !.expGrayPhotometricCut = updatedCuts,
                                        !.expGrayHighCut = updatedCuts,
                                        !.precomputeSuperStarInitialCycle = FALSE,
                                        !.freezeStdAtmosphere = FALSE]
                   /\ previousReservedRawRepeatability' = compReservedRawRepeatability
                   /\ UNCHANGED converged
    /\ cycleNumber' = cycleNumber + 1
    /\ pc' = "loopTop"
    /\ UNCHANGED <<starsBuilt, engineSetUp, previousParInfo, previousParams,
                   previousSuperStar, warnedNotConverged>>
    /\ UNCHANGED <<initialCycle, fgcmPars, magsReloaded, compReservedRawRepeatability,
                   updatedCuts>>
    /\ UNCHANGED <<fitLog, fitFailed, nOutputCalls>>
    /\ UNCHANGED <<auxVars, inputVars, runnerVars, indexVars>>

\* lines 387-404: what is set in the engine before run() in the clean-up cycle
CleanupPrepare ==
    /\ fgcmConfig' = FinalCycleConfig(fgcmConfig, cycleNumber)
    /\ initialCycle' = FALSE
    /\ fgcmPars' = LoadedPars
    /\ magsReloaded' = magsReloaded + 1
    /\ fitLog' = Append(fitLog, FitEntry("cleanup",
                                         FinalCycleConfig(fgcmConfig, cycleNumber),
                                         LoadedPars))

\* lines 387-400 when no loop cycle ran: loadParsWithArrays is handed the None
\* placeholders. The engine may refuse them; the exception leaves runDataRef
\* before run() is invoked.
CleanupLoadRejected ==
    /\ rpc = "inTask"
    /\ pc = "cleanup"
    /\ previousParInfo = None
    /\ fgcmConfig' = FinalCycleConfig(fgcmConfig, cycleNumber)
    /\ initialCycle' = FALSE
    /\ pc' = "raised"
    /\ UNCHANGED <<starsBuilt, engineSetUp, converged, cycleNumber,
                   previousReservedRawRepeatability, previousParInfo, previousParams,
                   previousSuperStar, warnedNotConverged>>
    /\ UNCHANGED <<fgcmPars, magsReloaded, compReservedRawRepeatability, updatedCuts>>
    /\ UNCHANGED <<auxVars, inputVars, runnerVars, logVars, indexVars>>

\* a clean-up cycle that captures its parameters as the loop cycles do
CleanupFitReturnCapturing ==
    /\ rpc = "inTask"
    /\ pc = "cleanup"
    /\ CleanupPrepare
    /\ \E rep \in RepVectors : compReservedRawRepeatability' = rep
    /\ updatedCuts' = <<cycleNumber>>
    /\ previousParInfo' = <<cycleNumber>>
    /\ previousParams' = <<cycleNumber>>
    /\ previousSuperStar' = <<cycleNumber>>
    /\ pc' = "outputs"
    /\ UNCHANGED <<starsBuilt, engineSetUp, converged, cycleNumber,
                   previousReservedRawRepeatability, warnedNotConverged>>
    /\ UNCHANGED <<testLog, fitFailed, nOutputCalls>>
    /\ UNCHANGED <<auxVars, inputVars, runnerVars, indexVars>>

\* lines 387-412, run() returns
CleanupFitReturn ==
    /\ rpc = "inTask"
    /\ pc = "cleanup"
    /\ CleanupPrepare
    /\ \E rep \in RepVectors : compReservedRawRepeatability' = rep
    /\ updatedCuts' = <<cycleNumber>>
    /\ pc' = "outputs"
    /\ UNCHANGED <<starsBuilt, engineSetUp, converged, cycleNumber,
                   previousReservedRawRepeatability, previousParInfo, previousParams,
                   previousSuperStar, warnedNotConverged>>
    /\ UNCHANGED <<testLog, fitFailed, nOutputCalls>>
    /\ UNCHANGED <<auxVars, inputVars, runnerVars, indexVars>>

\* lines 387-407, run() raises
CleanupFitRaise ==
    /\ rpc = "inTask"
    /\ pc = "cleanup"
    /\ CleanupPrepare
    /\ fitFailed' = TRUE
    /\ pc' = "raised"
    /\ UNCHANGED <<starsBuilt, engineSetUp, converged, cycleNumber,
                   previousReservedRawRepeatability, previousParInfo, previousParams,
                   previousSuperStar, warnedNotConverged>>
    /\ UNCHANGED <<compReservedRawRepeatability, updatedCuts>>
    /\ UNCHANGED <<testLog, nOutputCalls>>
    /\ UNCHANGED <<auxVars, inputVars, runnerVars, indexVars>>

\* the zeropoint flag values of the engine: 1 photometric; 2, 4, 8 constrained
\* but not photometric; 16, 32 unconstrained
FlagValues == {1, 2, 4, 8, 16, 32}

ZpVisits == {10, 20}
ZpDetectors == {1, 2}

\* makeZptCat(zptSchema, zpStruct) of line 422: one catalog record per row of
\* the engine's zeropoint struct, the fields copied
makeZptCat(zs) ==
    [i \in 1..Len(zs) |-> [visit |-> zs[i].VISIT, ccd |-> zs[i].CCDNUM,
                           fgcmFlag |-> zs[i].FGCM_FLAG]]

\* zeropoint structs the clean-up cycle of a tract run leaves in the engine
TractZpStructs ==
    { << [VISIT |-> 10, CCDNUM |-> 1, FGCM_FLAG |-> 1],
         [VISIT |-> 10, CCDNUM |-> 2, FGCM_FLAG |-> 4],
         [VISIT |-> 20, CCDNUM |-> 1, FGCM_FLAG |-> 16] >>,
      << [VISIT |-> 10, CCDNUM |-> 1, FGCM_FLAG |-> 32] >> }

\* lines 414-438: build the catalogs, call generateOutputProducts, return
MakeOutputs ==
    /\ rpc = "inTask"
    /\ pc = "outputs"
    /\ \E zs \in TractZpStructs :
          /\ zpStruct' = zs
          /\ zptCat' = makeZptCat(zs)
    /\ zpc' = "made"
    /\ nOutputCalls' = nOutputCalls + 1
    /\ pc' = "done"
    /\ UNCHANGED <<starsBuilt, engineSetUp, converged, cycleNumber,
                   previousReservedRawRepeatability, previousParInfo, previousParams,
                   previousSuperStar, warnedNotConverged>>
    /\ UNCHANGED <<fitLog, testLog, fitFailed>>
    /\ UNCHANGED <<toolVars, inputVars, runnerVars, engineVars, indexVars>>

----------------------------------------------------------------------------
(* The tract run *)

Next ==
    \/ RunnerRun
    \/ RunnerRunReturn
    \/ RunnerCall
    \/ CheckPreconditions
    \/ BuildAndSetup
    \/ LoopTest
    \/ LoopFitReturn
    \/ LoopFitRaise
    \/ LoopCheck
    \/ CleanupLoadRejected
    \/ CleanupFitReturn
    \/ CleanupFitRaise
    \/ MakeOutputs
    \/ RunnerAfterReturn
    \/ RunnerReraise
    \/ RunnerCatch

Spec == Init /\ [][Next]_vars

----------------------------------------------------------------------------
(* The indexing code on its own, over bounded tables *)

VisitValues == {10, 20, 30}
ObsVisitValues == {5, 10, 20, 30, 99}

Range(f) == {f[i] : i \in DOMAIN f}

IsAscending(f) == \A i, j \in DOMAIN f : i < j => f[i] < f[j]

\* fgcmExpInfo['VISIT'] is in strictly ascending visit order
SortedVisitLists ==
    UNION { { f \in [1..n -> VisitValues] : IsAscending(f) } : n \in 0..Cardinality(VisitValues) }

ObsTables ==
    UNION { [1..n -> ObsVisitValues] : n \in 0..MaxObs } \cup { <<30, 5, 20, 10, 99>> }

\* star indices: rows of the observation table, in table order
StarIndices(n) ==
    UNION { { f \in [1..m -> 1..n] : IsAscending(f) } : m \in 0..n }

InitIndex ==
    /\ lutExists = TRUE
    /\ doReferenceMatches = TRUE
    /\ maxFitCycles = MaxFitCyclesBound
    /\ convergenceTolerance = DefaultConvergenceTolerance
    /\ doRaise = FALSE
    /\ doReturnResults = FALSE
    /\ precallOk = TRUE
    /\ RunIdle
    /\ ipc = "ready"
    /\ VISIT \in SortedVisitLists
    /\ obsVisit \in ObsTables
    /\ obsIndex \in StarIndices(Len(obsVisit))
    /\ visitIndex = << >>
    /\ loadedVisit = << >>
    /\ loadedFilterVisit = << >>
    /\ ZptIdle
    /\ ToolsIdle

IndexStars ==
    /\ ipc = "ready"
    /\ IndexAndLoadStars(VISIT, obsVisit, obsIndex)
    /\ UNCHANGED <<auxVars, inputVars, runnerVars, taskVars, engineVars, logVars>>

NextIndex == IndexStars

SpecIndex == InitIndex /\ [][NextIndex]_vars

----------------------------------------------------------------------------
(* The zeropoint catalog on its own, over bounded zeropoint structs, and the *)
(* counts the tests take of it (fgcmcalTestBase.py 341-353)                  *)

\* the configuration of a run that passes the preconditions
InputsIdle ==
    /\ lutExists = TRUE
    /\ doReferenceMatches = TRUE
    /\ maxFitCycles = MaxFitCyclesBound
    /\ convergenceTolerance = DefaultConvergenceTolerance
    /\ doRaise = FALSE
    /\ doReturnResults = FALSE
    /\ precallOk = TRUE

ZpPairs == { <<v, d>> : v \in ZpVisits, d \in ZpDetectors }

PairBefore(p, q) == p[1] < q[1] \/ (p[1] = q[1] /\ p[2] < q[2])

\* the engine's struct has one row per (visit, detector) it computed, in
\* visit and detector order
ZpStructs ==
    UNION { { zs \in [1..n -> [VISIT : ZpVisits, CCDNUM : ZpDetectors, FGCM_FLAG : FlagValues]] :
                \A i, j \in 1..n : i < j =>
                    PairBefore(<<zs[i].VISIT, zs[i].CCDNUM>>, <<zs[j].VISIT, zs[j].CCDNUM>>) } :
            n \in 0..Cardinality(ZpPairs) }

GoodFlag == 1
BadFlagThreshold == 16

\* gd, ok and bd of the test: rows with fgcmFlag == 1, < 16, >= 16
gd(zps) == {i \in DOMAIN zps : zps[i].fgcmFlag = GoodFlag}
ok(zps) == {i \in DOMAIN zps : zps[i].fgcmFlag < BadFlagThreshold}
bdAboveThreshold(zps) == {i \in DOMAIN zps : zps[i].fgcmFlag > BadFlagThreshold}
bd(zps) == {i \in DOMAIN zps : zps[i].fgcmFlag >= BadFlagThreshold}

InitZpt ==
    /\ InputsIdle
    /\ RunIdle
    /\ IndexIdle
    /\ ToolsIdle
    /\ zpc = "ready"
    /\ zpStruct \in ZpStructs
    /\ zptCat = << >>

AssembleZeropoints ==
    /\ zpc = "ready"
    /\ zptCat' = makeZptCat(zpStruct)
    /\ zpc' = "made"
    /\ UNCHANGED zpStruct
    /\ UNCHANGED <<toolVars, inputVars, runnerVars, taskVars, engineVars, logVars, indexVars>>

NextZpt == AssembleZeropoints

SpecZpt == InitZpt /\ [][NextZpt]_vars

----------------------------------------------------------------------------
(* FgcmLoadReferenceCatalogTask.getFgcmReferenceStarsSkyCircle               *)
(* (fgcmLoadReferenceCatalog.py 172-359).                                    *)
(*                                                                           *)
(* Fluxes are integers in microjansky, magnitudes integers in units of 1e-6  *)
(* mag: 99.0 is 99000000 and the limit 90.0 is 90000000.                     *)

MaxRefStars == 2
MaxRefCalls == 2

CameraFilters == {"r2", "i2"}
ReferenceFilters == {"r", "i"}

\* config.refFilterMap of the test (test_loadref_hsc.py 127): r2 -> r, i2 -> i
FullRefFilterMap == [f \in CameraFilters |-> IF f = "r2" THEN "r" ELSE "i"]

\* a float that is not a number
NaN == -999999

SentinelMag == 99000000
GoodMagLimit == 90000000
\* magnitude of 1 microjansky: 8.9 + 2.5 * 6
ABmagOfMicroJansky == 23900000
\* 2.5 / ln(10)
MagErrPerRelErr == 1085736

\* c0 of the color terms of the test (test_loadref_hsc.py 134, 140)
ColortermC0 == [f \in CameraFilters |-> IF f = "r2" THEN -32 ELSE 1625]

nan_to_num(x) == IF x = NaN THEN 0 ELSE x

RECURSIVE Log10(_)
Log10(n) == IF n < 10 THEN 0 ELSE 1 + Log10(n \div 10)

\* (flux * units.Jy).to_value(units.ABmag), for a positive flux
ABmag(flux) == ABmagOfMicroJansky - 2500000 * Log10(flux)

abMagErrFromFluxErr(fluxErr, flux) == (MagErrPerRelErr * fluxErr) \div flux

\* the name getRefFluxField gives the flux field of a reference filter
FluxFieldOf(refFilterName) == <<refFilterName, "flux">>

\* the measurements of one source in one reference filter
Bright == [flux |-> 1000, fluxErr |-> 1]
LowSignal == [flux |-> 1, fluxErr |-> 1000]
NotANumber == [flux |-> NaN, fluxErr |-> NaN]
NonPositive == [flux |-> 0, fluxErr |-> 1]

RefRows ==
    { [selected |-> TRUE, meas |-> [f \in ReferenceFilters |-> Bright]],
      [selected |-> FALSE, meas |-> [f \in ReferenceFilters |-> Bright]],
      [selected |-> TRUE,
       meas |-> [f \in ReferenceFilters |-> IF f = "r" THEN LowSignal ELSE Bright]],
      [selected |-> TRUE,
       meas |-> [f \in ReferenceFilters |-> IF f = "r" THEN NotANumber ELSE Bright]],
      [selected |-> TRUE,
       meas |-> [f \in ReferenceFilters |-> IF f = "i" THEN NonPositive ELSE Bright]] }

RefCats == UNION { [1..n -> RefRows] : n \in 0..MaxRefStars }

FilterLists == { <<"r2", "i2">>, <<"i2", "r2">>, <<"i2">> }

\* validate() (lines 74-81) refuses an empty refFilterMap
RefFilterMaps ==
    { [f \in D |-> FullRefFilterMap[f]] : D \in (SUBSET CameraFilters) \ {{}} }

\* lines 316-334: the filter is in refFilterMap and loadSkyCircle accepts its
\* reference filter
Loadable(f) == f \in DOMAIN refFilterMap /\ refFilterMap[f] \in schemaFilters

FoundReferenceFilter(fl) == \E i \in 1..Len(fl) : Loadable(fl[i])

FirstLoadable(fl) ==
    CHOOSE i \in 1..Len(fl) : Loadable(fl[i]) /\ \A j \in 1..(i - 1) : ~Loadable(fl[j])

\* lines 340-359: the flux field of each filter, None where the lookup fails
DeterminedFluxFields(fl) ==
    [i \in 1..Len(fl) |-> IF Loadable(fl[i]) THEN FluxFieldOf(refFilterMap[fl[i]]) ELSE None]

\* colorterm.getCorrectedMagnitudes(refCat, filterName): the magnitude of the
\* primary flux plus the color term, not a number where the flux is not positive
CorrectedMag(row, f) ==
    LET m == row.meas[refFilterMap[f]]
    IN  IF nan_to_num(m.flux) > 0
        THEN [mag |-> ABmag(m.flux) + ColortermC0[f],
              err |-> abMagErrFromFluxErr(nan_to_num(m.fluxErr), m.flux)]
        ELSE [mag |-> NaN, err |-> NaN]

\* lines 264-275: one entry of refMag / refMagErr with color terms
CellWithColorTerms(row, f) ==
    LET c == CorrectedMag(row, f)
    IN  IF /\ nan_to_num(c.mag) < GoodMagLimit
           /\ nan_to_num(c.err) < GoodMagLimit
           /\ nan_to_num(c.err) > 0
        THEN c
        ELSE [mag |-> SentinelMag, err |-> SentinelMag]

\* lines 285-291: one entry of refMag / refMagErr without color terms
CellWithoutColorTerms(row, f) ==
    LET m == row.meas[refFilterMap[f]]
    IN  IF nan_to_num(m.flux) > 0 /\ nan_to_num(m.fluxErr) > 0
        THEN [mag |-> ABmag(m.flux), err |-> abMagErrFromFluxErr(m.fluxErr, m.flux)]
        ELSE [mag |-> SentinelMag, err |-> SentinelMag]

SelectedRows(cat) == SelectSeq(cat, LAMBDA row : row.selected)

\* lines 225-293, once self._fluxFilters (ff) and self._fluxFields (fields) are
\* settled: whether an exception leaves the function, and else the catalog
FilledCatalog(fl, ff, fields) ==
    LET rows == SelectedRows(refCat)
        sentinel == [i \in 1..Len(fl) |-> SentinelMag]
        Cell(row, i) ==
            IF applyColorTerms
            THEN IF fields[i] = None
                 THEN [mag |-> SentinelMag, err |-> SentinelMag]
                 ELSE CellWithColorTerms(row, ff[i])
            ELSE CellWithoutColorTerms(row, ff[i])
        Raised == [raised |-> TRUE, cat |-> << >>]
    IN  IF Len(rows) = 0 THEN [raised |-> FALSE, cat |-> << >>]
        ELSE IF fields = None THEN Raised
        ELSE IF applyColorTerms /\ \E i \in 1..Len(ff) :
                    fields[i] # None /\ ff[i] \notin colorterms
             THEN Raised
        ELSE IF ~applyColorTerms /\ \E i \in 1..Len(ff) : fields[i] = None
             THEN Raised
        ELSE [raised |-> FALSE,
              cat |-> [k \in 1..Len(rows) |->
                         [refMag |-> [i \in 1..Len(fl) |-> Cell(rows[k], i).mag],
                          refMagErr |-> [i \in 1..Len(fl) |-> Cell(rows[k], i).err]]]]

\* lines 206-293 with _determine_flux_fields (295-359)
getFgcmReferenceStarsSkyCircle(fl) ==
    /\ refCalls < MaxRefCalls
    /\ refCalls' = refCalls + 1
    /\ filterList' = fl
    /\ IF fluxFilters = None \/ fluxFilters # fl
       THEN /\ fluxFilters' = fl
            /\ IF FoundReferenceFilter(fl)
               THEN /\ referenceFilter' = refFilterMap[fl[FirstLoadable(fl)]]
                    /\ fluxFields' = DeterminedFluxFields(fl)
               ELSE UNCHANGED <<referenceFilter, fluxFields>>
       ELSE UNCHANGED <<fluxFilters, referenceFilter, fluxFields>>
    /\ LET determineRaised ==
               (fluxFilters = None \/ fluxFilters # fl) /\ ~FoundReferenceFilter(fl)
           res == IF determineRaised THEN [raised |-> TRUE, cat |-> << >>]
                  ELSE FilledCatalog(fl, fluxFilters', fluxFields')
       IN  /\ refpc' = IF res.raised THEN "raised" ELSE "returned"
           /\ fgcmRefCat' = res.cat
    /\ UNCHANGED refConfigVars
    /\ UNCHANGED <<lutVars, zptVars, inputVars, runnerVars, taskVars, engineVars, logVars, indexVars>>

InitRef ==
    /\ InputsIdle
    /\ RunIdle
    /\ IndexIdle
    /\ ZptIdle
    /\ LutIdle
    /\ refpc = "idle"
    /\ refCalls = 0
    /\ applyColorTerms \in BOOLEAN
    /\ refFilterMap \in RefFilterMaps
    /\ colorterms \in SUBSET CameraFilters
    /\ schemaFilters \in SUBSET ReferenceFilters
    /\ refCat \in RefCats
    /\ filterList = << >>
    /\ fluxFilters = None
    /\ fluxFields = None
    /\ referenceFilter = None
    /\ fgcmRefCat = << >>

LoadReferenceStars == \E fl \in FilterLists : getFgcmReferenceStarsSkyCircle(fl)

NextRef == LoadReferenceStars

SpecRef == InitRef /\ [][NextRef]_vars

----------------------------------------------------------------------------
(* FgcmMakeLutTask.run and _fgcmMakeLut (fgcmMakeLut.py 226-415), over a     *)
(* butler whose datasets 'fgcmLut' and 'fgcmLookUpTable' exist or not.       *)
(* Axis ranges and step counts are small integers.                           *)

MaxLutRuns == 2
MaxSteps == 3

\* the fields FgcmMakeLutConfig declares (lines 30-144)
LutConfigFields ==
    { "bands", "elevation", "pmbRange", "pmbSteps", "pwvRange", "pwvSteps",
      "o3Range", "o3Steps", "tauRange", "tauSteps", "alphaRange", "alphaSteps",
      "zenithRange", "zenithSteps", "pmbStd", "pwvStd", "o3Std", "tauStd",
      "alphaStd", "airmassStd", "lambdaNorm", "lambdaStep", "lambdaRange" }

\* the attributes of self.config read while lutConfig is filled (lines 261-284)
LutConfigReads ==
    << "elevation", "bands", "pmbRange", "pmbSteps", "pwvRange", "pwvSteps",
       "o3Range", "o3Steps", "tauRange", "tauSteps", "alphaRange", "alphaSteps",
       "zenithRange", "zenithSteps", "pmbStd", "pwvStd", "p3Std", "tauStd",
       "alphaStd", "airmassStd", "lambdaRange", "lambdaStep", "lambdaNorm" >>

\* reading an attribute the config class does not declare raises AttributeError
LutConfigReadable == \A i \in DOMAIN LutConfigReads : LutConfigReads[i] \in LutConfigFields

\* the local names assigned before and in the throughput loop (lines 254-304)
ThroughputNamesBound ==
    { "camera", "nCcd", "lutConfig", "throughLambda", "tput", "throughputDict",
      "i", "b", "tDict", "ccdIndex", "detector" }

\* the local names the throughput loop reads (lines 303-308)
ThroughputNamesRead ==
    { "throughputLambda", "camera", "detector", "band", "tput", "tDict",
      "throughputDict", "b", "ccdIndex" }

\* reading a name that was never assigned raises NameError
ThroughputNamesReadable == ThroughputNamesRead \subseteq ThroughputNamesBound

\* the axis the engine makes of a range and a step count: evenly spaced
\* samples from the minimum to the maximum
EngineAxis(a) ==
    [i \in 1..axisSteps[a] |->
        IF axisSteps[a] = 1 THEN axisRange[a][1]
        ELSE axisRange[a][1]
               + ((i - 1) * (axisRange[a][2] - axisRange[a][1])) \div (axisSteps[a] - 1)]

\* lines 317-413: the one record of lutCat; each array field with the size the
\* schema declares for it and the array written into it
LutRecord(lut, lutDeriv) ==
    [axis |-> [a \in Axes |-> [size |-> Len(EngineAxis(a)), array |-> EngineAxis(a)]],
     lut |-> [size |-> Len(lut), array |-> lut],
     lutderiv |-> [size |-> Len(lutDeriv), array |-> lutDeriv]]

\* a look-up table made by an earlier run
EarlierCatalog == << [axis |-> << >>, lut |-> << >>, lutderiv |-> << >>] >>

\* the engine's table: a flat array of a size the engine chooses
EngineLuts == { [i \in 1..n |-> 0] : n \in 1..2 }

\* np.arange(start, stop, step) of lines 294-296, for a positive step
arange(start, stop, step) ==
    [k \in 1..((stop - start + step - 1) \div step) |-> start + (k - 1) * step]

\* lines 294-296: the grid in Angstrom; lambdaStep is in nm
throughLambda == arange(lambdaRange[1], lambdaRange[2], lambdaStep * 10)

\* config.bands (line 301) and the detectors of the camera (line 304)
LutBands == {"r", "i"}
Detectors == 1..2

\* lines 300-308: per band the grid under 'LAMBDA' and, per detector, the
\* throughput the sampler returns for the grid it is called with, in nm
ThroughputDict(grid) ==
    [b \in LutBands |->
        [LAMBDA |-> grid,
         detector |-> [d \in Detectors |->
                         [sampledAt |-> [k \in DOMAIN grid |-> grid[k] \div 10]]]]]

\* a run that puts the catalog as soon as 'fgcmLookUpTable' is found absent,
\* before the configuration is read and the table is made
LutRunPutsFirst ==
    /\ lutRuns < MaxLutRuns
    /\ lutRuns' = lutRuns + 1
    /\ lookUpTableAtStart' = lookUpTable
    /\ IF fgcmLutExists \/ lookUpTable # None
       THEN /\ lpc' = "returned"
            /\ lutError' = "none"
            /\ lutPuts' = 0
            /\ UNCHANGED lookUpTable
       ELSE /\ lpc' = "raised"
            /\ lutError' = "AttributeError"
            /\ lutPuts' = 1
            /\ lookUpTable' = << [axis |-> << >>, lut |-> << >>, lutderiv |-> << >>] >>
    /\ lutMakerBuilt' = FALSE
    /\ lutMade' = FALSE
    /\ throughputDict' = None
    /\ UNCHANGED lutConfigVars
    /\ UNCHANGED <<refVars, zptVars, inputVars, runnerVars, taskVars, engineVars, logVars,
                   indexVars>>

\* lines 240-243 and 249-415
LutRun ==
    /\ lutRuns < MaxLutRuns
    /\ lutRuns' = lutRuns + 1
    /\ lookUpTableAtStart' = lookUpTable
    /\ IF fgcmLutExists
       THEN \* line 240: nothing to do
            /\ lpc' = "returned"
            /\ lutError' = "none"
            /\ lutPuts' = 0
            /\ lutMakerBuilt' = FALSE
            /\ lutMade' = FALSE
            /\ throughputDict' = None
            /\ UNCHANGED lookUpTable
       ELSE IF lookUpTable # None
       THEN \* lines 249-251: all done
            /\ lpc' = "returned"
            /\ lutError' = "none"
            /\ lutPuts' = 0
            /\ lutMakerBuilt' = FALSE
            /\ lutMade' = FALSE
            /\ throughputDict' = None
            /\ UNCHANGED lookUpTable
       ELSE IF ~LutConfigReadable
       THEN \* lines 260-284
            /\ lpc' = "raised"
            /\ lutError' = "AttributeError"
            /\ lutPuts' = 0
            /\ lutMakerBuilt' = FALSE
            /\ lutMade' = FALSE
            /\ throughputDict' = None
            /\ UNCHANGED lookUpTable
       ELSE IF ~ThroughputNamesReadable
       THEN \* lines 287-308
            /\ lpc' = "raised"
            /\ lutError' = "NameError"
            /\ lutPuts' = 0
            /\ lutMakerBuilt' = TRUE
            /\ lutMade' = FALSE
            /\ throughputDict' = None
            /\ UNCHANGED lookUpTable
       ELSE \* lines 311-415
            /\ lpc' = "returned"
            /\ lutError' = "none"
            /\ lutPuts' = 1
            /\ lutMakerBuilt' = TRUE
            /\ lutMade' = TRUE
            /\ throughputDict' = ThroughputDict(throughLambda)
            /\ \E lut \in EngineLuts, lutDeriv \in EngineLuts :
                  lookUpTable' = << LutRecord(lut, lutDeriv) >>
    /\ UNCHANGED lutConfigVars
    /\ UNCHANGED <<refVars, zptVars, inputVars, runnerVars, taskVars, engineVars, logVars,
                   indexVars>>

AxisRanges == { <<0, 2>>, <<1, 1>>, <<2, 0>> }
LambdaRanges == { <<3000, 3030>>, <<3000, 3035>> }
LambdaSteps == {1, 2}

\* configurations in which at most one axis departs from the well-formed one
LutAxisConfigs ==
    { [range |-> [a \in Axes |-> IF a = x THEN r ELSE DefaultAxisRange],
       steps |-> [a \in Axes |-> IF a = x THEN n ELSE DefaultAxisSteps]] :
      x \in Axes, r \in AxisRanges, n \in 0..MaxSteps }

InitLut ==
    /\ InputsIdle
    /\ RunIdle
    /\ IndexIdle
    /\ ZptIdle
    /\ RefIdle
    /\ lpc = "idle"
    /\ lutRuns = 0
    /\ fgcmLutExists \in BOOLEAN
    /\ lookUpTable \in {None, EarlierCatalog}
    /\ lookUpTableAtStart = lookUpTable
    /\ lutPuts = 0
    /\ lutMakerBuilt = FALSE
    /\ lutMade = FALSE
    /\ lutError = "none"
    /\ throughputDict = None
    /\ lambdaRange \in LambdaRanges
    /\ lambdaStep \in LambdaSteps
    /\ \E c \in LutAxisConfigs :
          /\ axisRange = c.range
          /\ axisSteps = c.steps

NextLut == LutRun

SpecLut == InitLut /\ [][NextLut]_vars

----------------------------------------------------------------------------
(* Properties of the convergence loop *)

\* C1: in the step that evaluates the convergence test of a loop cycle, converged
\* becomes true if and only if, for every band, the signed difference
\* previousReservedRawRepeatability - compReservedRawRepeatability is strictly
\* below convergenceTolerance; the outcome recorded for the cycle is that value.
C1_ConvergedIffSignedDeltaBelowTolerance ==
    [][ pc = "loopCheck" =>
          /\ converged' = (\A b \in Bands :
                             previousReservedRawRepeatability[b]
                               - compReservedRawRepeatability[b] < convergenceTolerance)
          /\ testLog' = Append(testLog, converged') ]_vars

\* C1 witness: a cycle was declared converged under the default tolerance although
\* the repeatability of one band got worse by at least the tolerance
C1_WorseningConverged ==
    /\ pc = "loopTop"
    /\ converged
    /\ convergenceTolerance = DefaultConvergenceTolerance
    /\ \E b \in Bands :
          compReservedRawRepeatability[b] - previousReservedRawRepeatability[b]
              >= convergenceTolerance

\* the loop cycles a run needs until the convergence test is first true
HasConvergedCycle == \E i \in DOMAIN testLog : testLog[i]
CyclesUntilConvergence ==
    CHOOSE i \in DOMAIN testLog : testLog[i] /\ \A j \in 1..(i - 1) : ~testLog[j]

\* min(maxFitCycles, cyclesUntilConvergence) + 1
ClaimedFitInvocations ==
    IF HasConvergedCycle THEN Min(maxFitCycles, CyclesUntilConvergence) + 1
                         ELSE maxFitCycles + 1

C4_FirstCycleNeverConverges ==
    Len(testLog) >= 1 =>
        /\ testLog[1] = FALSE
        /\ (pc = "loopTop" /\ cycleNumber = 1
               => previousReservedRawRepeatability = compReservedRawRepeatability)

\* C5: once the convergence test of a loop cycle was true, that cycle is the last
\* loop cycle: no loop fit is started after it, and the only engine invocation
\* after it is one clean-up cycle.
C5_LoopStopsAtFirstConvergedCycle ==
    \A i \in DOMAIN testLog :
        testLog[i] =>
            /\ i = Len(testLog)
            /\ converged
            /\ pc \notin {"loopFit", "loopCheck"}
            /\ Len(fitLog) \in {i, i + 1}
            /\ \A k \in DOMAIN fitLog :
                  fitLog[k].kind = (IF k <= i THEN "loop" ELSE "cleanup")

\* C5 witness: tolerance 0.005, cycle 0 gave [0.0200, 0.0180] and did not converge,
\* cycle 1 converged, and the run ended after exactly one clean-up invocation
C5_ConvergedAtCycleOne ==
    /\ pc = "done"
    /\ convergenceTolerance = DefaultConvergenceTolerance
    /\ previousReservedRawRepeatability = <<200, 180>>
    /\ testLog = <<FALSE, TRUE>>
    /\ Len(fitLog) = 3
    /\ fitLog[3].kind = "cleanup"

\* C6: every clean-up invocation of the engine runs with maxIter = 0,
\* freezeStdAtmosphere and resetParameters off and both output flags on, and is
\* the last invocation; every loop invocation runs with both output flags off;
\* output products are generated only after the clean-up invocation.
C6_CleanupCycleConfiguration ==
    /\ \A k \in DOMAIN fitLog :
          /\ fitLog[k].kind = "cleanup" =>
                /\ fitLog[k].maxIter = 0
                /\ ~fitLog[k].freezeStdAtmosphere
                /\ ~fitLog[k].resetParameters
                /\ fitLog[k].outputZeropoints
                /\ fitLog[k].outputStandards
                /\ k = Len(fitLog)
          /\ fitLog[k].kind = "loop" =>
                /\ ~fitLog[k].outputZeropoints
                /\ ~fitLog[k].outputStandards
    /\ nOutputCalls > 0 =>
          /\ nOutputCalls = 1
          /\ fitLog # << >>
          /\ fitLog[Len(fitLog)].kind = "cleanup"

\* C6 witness: a run that made outputs after loop cycles and the clean-up cycle
C6_OutputsAfterCleanup ==
    /\ pc = "done"
    /\ nOutputCalls = 1
    /\ Len(fitLog) >= 3
    /\ fitLog[Len(fitLog)].kind = "cleanup"

\* C7: when the look-up table is missing or doReferenceMatches is false, no star
\* building, no engine setup, no fit invocation and no output call ever happens,
\* and runDataRef ends by raising.
C7_PreconditionFailureStopsEverything ==
    (~lutExists \/ ~doReferenceMatches) =>
        /\ ~starsBuilt
        /\ ~engineSetUp
        /\ fitLog = << >>
        /\ nOutputCalls = 0
        /\ pc \in {"idle", "start", "raised"}

\* C7 witness: the table exists, doReferenceMatches is false, runDataRef raised
C7_RaisedOnReferenceMatches ==
    /\ lutExists
    /\ ~doReferenceMatches
    /\ pc = "raised"
    /\ rpc \in {"returned", "raised"}

\* C8: once a fit call failed, runDataRef has raised, stays raised (no later
\* cycle), and generateOutputProducts is never called.
C8_FitFailurePropagates ==
    fitFailed =>
        /\ pc = "raised"
        /\ nOutputCalls = 0
        /\ \A r \in Range(returned) : r.exitStatus = 1

\* C8 witness: a fit call failed after an earlier cycle had succeeded, and the
\* runner has finished
C8_FailedAfterACycle ==
    /\ fitFailed
    /\ Len(fitLog) >= 2
    /\ rpc \in {"returned", "raised"}

\* C9: when __call__ has ended without doRaise, writeMetadata was called exactly
\* once and a one-element list was returned whose exitStatus is 1 if the task
\* raised (which was logged) and 0 if it returned; with doRaise a task failure
\* leaves __call__ as an exception.
C9_RunnerExitStatus ==
    rpc \in {"returned", "raised"} =>
        IF doRaise
        THEN pc = "raised" => rpc = "raised"
        ELSE /\ rpc = "returned"
             /\ metadataWrites = 1
             /\ Len(returned) = 1
             /\ returned[1].exitStatus = (IF pc = "raised" THEN 1 ELSE 0)
             /\ failLogged = (IF pc = "raised" THEN 1 ELSE 0)

\* C10: the indexing raises no error and hands to loadStars exactly those of the
\* indexed observations whose visit is in the visit table.
C10_SelectsExactlyMemberVisits ==
    ipc \in {"loaded", "indexError"} =>
        /\ ipc = "loaded"
        /\ \A k \in DOMAIN loadedVisit : loadedVisit[k] \in Range(VISIT)
        /\ Len(loadedVisit) =
              Cardinality({k \in DOMAIN obsIndex : obsVisit[obsIndex[k]] \in Range(VISIT)})

\* C11: obsIndex and visitIndex have the same length, the indexed observations
\* keep their table order, and for every k the visit at position visitIndex[k]
\* of the visit table is the visit of observation obsIndex[k].
C11_VisitIndexPointsAtOwnVisit ==
    ipc \in {"loaded", "indexError"} =>
        /\ Len(visitIndex) = Len(obsIndex)
        /\ IsAscending(obsIndex)
        /\ \A k \in DOMAIN visitIndex :
              /\ visitIndex[k] \in DOMAIN VISIT
              /\ VISIT[visitIndex[k]] = obsVisit[obsIndex[k]]

\* C12: with an empty visit table the indexing raises no error and returns an
\* empty obsIndex and an empty visitIndex, whatever the observation table holds.
C12_EmptyVisitTableGivesEmptyIndices ==
    (ipc \in {"loaded", "indexError"} /\ VISIT = << >>) =>
        /\ ipc = "loaded"
        /\ obsIndex = << >>
        /\ visitIndex = << >>

----------------------------------------------------------------------------
(* Properties of the zeropoint output *)

OneRecordPerPair ==
    /\ Len(zptCat) = Len(zpStruct)
    /\ \A i \in DOMAIN zpStruct :
          /\ zptCat[i].visit = zpStruct[i].VISIT
          /\ zptCat[i].ccd = zpStruct[i].CCDNUM
          /\ zptCat[i].fgcmFlag = zpStruct[i].FGCM_FLAG
    /\ \A i, j \in DOMAIN zptCat :
          (zptCat[i].visit = zptCat[j].visit /\ zptCat[i].ccd = zptCat[j].ccd) => i = j

----------------------------------------------------------------------------
(* Properties of the reference catalog loader *)

\* the reference lookup of a camera filter fails: it is missing from
\* refFilterMap, its flux field is absent from the catalog, or color terms are
\* applied and there is none for it
LookupFails(f) ==
    \/ f \notin DOMAIN refFilterMap
    \/ refFilterMap[f] \notin schemaFilters
    \/ applyColorTerms /\ f \notin colorterms

\* C14: when the lookup fails for one band of the filter list and not for the
\* other, the call returns a catalog in which that band is 99 in refMag and
\* refMagErr for every star and the other band is filled as usual, with and
\* without color terms.
C14_FailedBandIsSentinelOthersFilled ==
    (/\ refpc \in {"returned", "raised"}
     /\ Len(filterList) = 2
     /\ \E i \in 1..2 : LookupFails(filterList[i]) /\ ~LookupFails(filterList[3 - i])) =>
        /\ refpc = "returned"
        /\ Len(fgcmRefCat) = Len(SelectedRows(refCat))
        /\ \A k \in DOMAIN fgcmRefCat : \A i \in 1..2 :
              LET cell == IF applyColorTerms
                          THEN CellWithColorTerms(SelectedRows(refCat)[k], filterList[i])
                          ELSE CellWithoutColorTerms(SelectedRows(refCat)[k], filterList[i])
              IN  IF LookupFails(filterList[i])
                  THEN /\ fgcmRefCat[k].refMag[i] = SentinelMag
                       /\ fgcmRefCat[k].refMagErr[i] = SentinelMag
                  ELSE /\ fgcmRefCat[k].refMag[i] = cell.mag
                       /\ fgcmRefCat[k].refMagErr[i] = cell.err

ValidBelowSentinel(x) == x # NaN /\ x < SentinelMag

\* C15: a returned catalog has len(filterList) entries of refMag and of
\* refMagErr per row and one row per selected source; every entry is 99 or a
\* valid value below 99; for each star and band refMag and refMagErr are both
\* 99 or both valid.
C15_EntriesSentinelOrBelow ==
    refpc = "returned" =>
        /\ Len(fgcmRefCat) = Len(SelectedRows(refCat))
        /\ \A k \in DOMAIN fgcmRefCat :
              /\ Len(fgcmRefCat[k].refMag) = Len(filterList)
              /\ Len(fgcmRefCat[k].refMagErr) = Len(filterList)
              /\ \A i \in 1..Len(filterList) :
                    LET mag == fgcmRefCat[k].refMag[i]
                        err == fgcmRefCat[k].refMagErr[i]
                    IN  \/ mag = SentinelMag /\ err = SentinelMag
                        \/ ValidBelowSentinel(mag) /\ ValidBelowSentinel(err)

----------------------------------------------------------------------------
(* Properties of the look-up table maker *)

LutRunEnded == lpc \in {"returned", "raised"}

\* the last run found neither 'fgcmLut' nor 'fgcmLookUpTable' and so had to
\* make the table
LutRunHadToBuild == LutRunEnded /\ ~fgcmLutExists /\ lookUpTableAtStart = None

\* C16: a run that returns normally leaves an fgcmLookUpTable record in the
\* store; a run started when the record exists performs no put and leaves the
\* record unchanged, so that repeated runs keep the record of the first.
C16_LutBuiltExactlyOnce ==
    LutRunEnded =>
        /\ lpc = "returned" => lookUpTable # None
        /\ lookUpTableAtStart # None =>
              (lutPuts = 0 /\ lookUpTable = lookUpTableAtStart)

RecordFilled(rec) ==
    /\ \A a \in Axes : Len(rec.axis[a].array) = rec.axis[a].size
    /\ Len(rec.lut.array) = rec.lut.size
    /\ Len(rec.lutderiv.array) = rec.lutderiv.size

\* C17: a run puts at most once; a put happens only after makeLUT has returned
\* and every field of the one record of the catalog is filled; a run that
\* fails or puts nothing leaves the store as it found it.
C17_NoPartialTablePersisted ==
    LutRunEnded =>
        /\ lutPuts <= 1
        /\ lutPuts = 1 =>
              /\ lutMakerBuilt /\ lutMade
              /\ lpc = "returned"
              /\ Len(lookUpTable) = 1
              /\ RecordFilled(lookUpTable[1])
        /\ (lpc = "raised" \/ lutPuts = 0) => lookUpTable = lookUpTableAtStart

C17_FailedRunLeftStoreEmpty ==
    /\ lpc = "raised"
    /\ ~fgcmLutExists
    /\ lookUpTableAtStart = None
    /\ lookUpTable = None
    /\ lutPuts = 0

Malformed(a) == axisSteps[a] < 1 \/ axisRange[a][2] <= axisRange[a][1]

\* C18: a run that has to make the table and finds an axis with a step count
\* below 1 or a maximum not above its minimum fails with a configuration
\* error, before the engine is given the configuration, before any table is
\* made and before any put.
C18_MalformedAxisIsConfigurationError ==
    (LutRunHadToBuild /\ \E a \in Axes : Malformed(a)) =>
        /\ lpc = "raised"
        /\ lutError = "ConfigurationError"
        /\ ~lutMakerBuilt
        /\ ~lutMade
        /\ lutPuts = 0

\* C19: after a run that had to make the table, for every axis with a step
\* count of at least 2 and a maximum above its minimum the axis stored in the
\* record has exactly that many samples, strictly increasing, the first the
\* minimum and the last the maximum.
C19_StoredAxisSpansRange ==
    LutRunHadToBuild =>
        \A a \in Axes :
            (axisSteps[a] >= 2 /\ axisRange[a][1] < axisRange[a][2]) =>
                /\ lookUpTable # None
                /\ LET ax == lookUpTable[1].axis[a].array
                   IN  /\ Len(ax) = axisSteps[a]
                       /\ IsAscending(ax)
                       /\ ax[1] = axisRange[a][1]
                       /\ ax[Len(ax)] = axisRange[a][2]

RECURSIVE ProductOfAxisSizes(_, _)
ProductOfAxisSizes(rec, S) ==
    IF S = {} THEN 1
    ELSE LET a == CHOOSE x \in S : TRUE
         IN  Len(rec.axis[a].array) * ProductOfAxisSizes(rec, S \ {a})

\* C20: after a run that had to make the table from a well-formed
\* configuration, the persisted record's lut has the product of the axis sizes
\* times the number of bands as its length, lutderiv has the same length, and
\* every field's declared size is the length of the array written into it.
C20_LutLengthIsProductOfAxes ==
    (LutRunHadToBuild /\ \A a \in Axes : ~Malformed(a)) =>
        /\ lookUpTable # None
        /\ LET rec == lookUpTable[1]
           IN  /\ Len(rec.lut.array) = ProductOfAxisSizes(rec, Axes) * Cardinality(Bands)
               /\ Len(rec.lutderiv.array) = Len(rec.lut.array)
               /\ RecordFilled(rec)

\* C21: a run that had to make the table has handed the engine, for every
\* band, the grid arange(lambdaRange[0], lambdaRange[1], 10 lambdaStep) in
\* Angstrom under 'LAMBDA', and has sampled every detector of every band at
\* that one grid divided by 10, in nm.
C21_OneWavelengthGridForAllDetectors ==
    LutRunHadToBuild =>
        /\ throughputDict # None
        /\ \A b \in LutBands :
              /\ throughputDict[b].LAMBDA = throughLambda
              /\ \A d \in Detectors :
                    throughputDict[b].detector[d].sampledAt
                        = [k \in DOMAIN throughLambda |-> throughLambda[k] \div 10]

----------------------------------------------------------------------------
(* Properties of the runner *)

\* C22: run invokes the task at most once; when precall fails it invokes
\* nothing and returns the empty list; a fit is invoked only from the one task
\* call, one at a time, and a fit that follows another starts with the
\* parameters of the one before already captured.
C22_OneTaskCallFitsInSequence ==
    [][ /\ taskCalls' <= 1
        /\ (runpc' = "returned" /\ ~precallOk) =>
              (taskCalls' = 0 /\ resultList' = << >> /\ fitLog' = << >>)
        /\ Len(fitLog') > Len(fitLog) =>
              /\ Len(fitLog') = Len(fitLog) + 1
              /\ taskCalls = 1
              /\ rpc = "inTask"
              /\ pc \in {"loopFit", "cleanup"}
              /\ pc' \in {"loopCheck", "outputs", "raised"}
              /\ Len(fitLog) > 0 =>
                    previousParInfo = <<fitLog[Len(fitLog)].cycleNumber>>
      ]_vars

C22_RunReturnedAfterThreeFits ==
    /\ runpc = "returned"
    /\ precallOk
    /\ taskCalls = 1
    /\ Len(fitLog) = 3
    /\ resultList = returned
    /\ returned # << >>

----------------------------------------------------------------------------
(* Properties of the cycle state *)

\* the step that ends a loop cycle: lines 363-380
EndsLoopCycle == pc = "loopCheck" /\ pc' = "loopTop"

\* C23: the input the clean-up step would hand to the engine if it were run
\* again from the state it leaves (configuration, loaded parameters, reloaded
\* magnitudes) is the input of the clean-up cycle that ran, so a deterministic
\* engine returns the same output records.
C23_CleanupInputIsRepeatable ==
    pc = "outputs" =>
        /\ fitLog[Len(fitLog)].kind = "cleanup"
        /\ FitEntry("cleanup", FinalCycleConfig(fgcmConfig, cycleNumber), LoadedPars)
              = fitLog[Len(fitLog)]
        /\ fgcmConfig.maxIter = 0

C23_CleanupAfterTwoCycles ==
    /\ pc = "outputs"
    /\ cycleNumber = 2
    /\ previousParInfo = <<1>>
    /\ fitLog[Len(fitLog)].pars.parInfo = <<1>>

\* C24: a loop cycle that did not converge leaves both cut thresholds at the
\* cuts its fit recommended and previousReservedRawRepeatability at its
\* repeatability; a loop cycle that converged leaves the cuts and the previous
\* repeatability as they were; both add one to cycleNumber.
C24_EffectOfTheConvergenceCheck ==
    [][ EndsLoopCycle =>
          /\ cycleNumber' = cycleNumber + 1
          /\ IF converged'
             THEN /\ fgcmConfig'.expGrayPhotometricCut = fgcmConfig.expGrayPhotometricCut
                  /\ fgcmConfig'.expGrayHighCut = fgcmConfig.expGrayHighCut
                  /\ previousReservedRawRepeatability' = previousReservedRawRepeatability
             ELSE /\ updatedCuts = <<cycleNumber>>
                  /\ fgcmConfig'.expGrayPhotometricCut = updatedCuts
                  /\ fgcmConfig'.expGrayHighCut = updatedCuts
                  /\ previousReservedRawRepeatability' = compReservedRawRepeatability
      ]_vars

C24_ConvergedAfterACycleThatDidNot ==
    /\ pc = "loopTop"
    /\ Len(testLog) = 2
    /\ ~testLog[1]
    /\ testLog[2]
    /\ fgcmConfig.expGrayPhotometricCut = <<0>>
    /\ previousReservedRawRepeatability # compReservedRawRepeatability

\* the carried parameters are those the loop cycle just ended has captured
CarriedParametersOfLastCycle ==
    /\ Len(testLog) = cycleNumber
    /\ previousParInfo = <<cycleNumber - 1>>
    /\ previousParams = <<cycleNumber - 1>>
    /\ previousSuperStar = <<cycleNumber - 1>>

\* C25 as stated: after every loop cycle, converged or not, cycleNumber, the
\* carried parameters, the carried super-star flat and the previous
\* repeatability all hold the value of that cycle.
C25_EveryComponentOverwritten ==
    (pc = "loopTop" /\ cycleNumber >= 1) =>
        /\ CarriedParametersOfLastCycle
        /\ previousReservedRawRepeatability = compReservedRawRepeatability

\* C25 amended: after every loop cycle, converged or not, cycleNumber, the
\* carried parameters and the carried super-star flat hold the value of that
\* cycle; the previous repeatability holds the cycle's vector when the cycle did
\* not converge.
C25_CarriedParametersOverwritten ==
    (pc = "loopTop" /\ cycleNumber >= 1) =>
        /\ CarriedParametersOfLastCycle
        /\ ~testLog[cycleNumber] =>
              previousReservedRawRepeatability = compReservedRawRepeatability

C25_ConvergedCycleKeptOlderRepeatability ==
    /\ pc = "loopTop"
    /\ cycleNumber = 2
    /\ testLog[2]
    /\ previousSuperStar = <<1>>
    /\ previousReservedRawRepeatability # compReservedRawRepeatability

InitialCycleFlags(cfg) == <<cfg.precomputeSuperStarInitialCycle, cfg.freezeStdAtmosphere>>

C27_ParametersThreaded ==
    /\ \A i \in DOMAIN fitLog :
          LET n == fitLog[i].cycleNumber
              pars == fitLog[i].pars
          IN  /\ n = i - 1
              /\ IF fitLog[i].kind = "loop" /\ n = 0
                 THEN pars.kind = "new"
                 ELSE /\ pars.kind = "loaded"
                      /\ pars.parInfo = <<n - 1>>
                      /\ pars.params = <<n - 1>>
                      /\ pars.superStar = <<n - 1>>
    /\ pc = "loopCheck" => previousParInfo = <<fitLog[Len(fitLog)].cycleNumber>>

\* the observation table and the two index arrays stay as the set-up left them
IndexFixed ==
    pc \notin {"idle", "start", "build"} =>
        <<obsIndex, visitIndex, obsVisit, VISIT>>' = <<obsIndex, visitIndex, obsVisit, VISIT>>

\* C28 as stated: obsIndex and visitIndex are set once, before the loop, and
\* no later step changes them; every fit, in a loop cycle or in the clean-up,
\* is preceded by a reload of the magnitudes through obsIndex.
C28_EveryFitAfterAReload ==
    [][ IndexFixed /\ magsReloaded' = Len(fitLog') ]_vars

\* C28 amended: obsIndex and visitIndex are set once, before the loop, and no
\* later step changes them or the observation table; every fit but that of
\* cycle 0, whose magnitudes loadStars has taken through obsIndex in the
\* set-up, is preceded by one reload of the magnitudes through obsIndex.
C28_IndexFixedMagnitudesReloaded ==
    [][ /\ IndexFixed
        /\ magsReloaded' =
              Cardinality({i \in DOMAIN fitLog' :
                              fitLog'[i].kind = "cleanup" \/ fitLog'[i].cycleNumber > 0})
      ]_vars

C28_ThreeFitsTwoReloads ==
    /\ pc = "outputs"
    /\ Len(fitLog) = 3
    /\ magsReloaded = 2
    /\ obsIndex = <<1, 2, 3>>

\* C29: whenever the clean-up cycle is about to run, previousParInfo,
\* previousParams and previousSuperStar are values captured from a loop fit,
\* not the None they start with, for every maxFitCycles.
C29_CleanupNeverLoadsNone ==
    pc = "cleanup" =>
        /\ previousParInfo # None
        /\ previousParams # None
        /\ previousSuperStar # None

----------------------------------------------------------------------------
(* Properties of the reference loader's cache *)

\* C30: whenever _fluxFilters is a filter list, _fluxFields has one entry per
\* filter and, with _referenceFilter, holds what is determined for that list;
\* a determination that raises leaves the three as they were.
C30_CacheConsistent ==
    fluxFilters # None =>
        /\ fluxFields # None
        /\ Len(fluxFields) = Len(fluxFilters)
        /\ FoundReferenceFilter(fluxFilters)
        /\ fluxFields = DeterminedFluxFields(fluxFilters)
        /\ referenceFilter = refFilterMap[fluxFilters[FirstLoadable(fluxFilters)]]

====
